---- MODULE Spec2Model ----
(***************************************************************************)
(* Model of the video job daemon of AutoVideoGen/scripts/                  *)
(* background_automation.py: the videos table (Job Store), the status file *)
(* (Status Reporter), launch_vrew_automation (dispatch of one job) and     *)
(* daemon_mode (the polling loop).                                         *)
(*                                                                         *)
(* Text values are sequences of one-character strings, so that slicing and *)
(* character tests are computed as the code computes them.  The empty      *)
(* file_path "" is the empty sequence.  Python's None is NoVideo for       *)
(* current_video and NoTime for last_update.                               *)
(***************************************************************************)
EXTENDS Naturals, Integers, Sequences, FiniteSets, TLC

\* ------------------------------------------------------------------ bounds
MaxJobs == 2        \* job ids are 1..MaxJobs
MaxClock == 2       \* datetime.now() ranges over 1..MaxClock
MaxResets == 1      \* number of times an external actor resets a job to planned

\* ------------------------------------------------------- program constants
SafeTitleLen == 20  \* [:20] of safe_title
PendingShown == 5   \* videos[:5] of show_status

Ids == 1..MaxJobs
LongTitle == [i \in 1..(SafeTitleLen + 1) |-> "a"]
Titles == { <<"a", " ">>, LongTitle }
\* the title a job is created with: both kinds of title occur, one per id
TitleOf(id) == IF id % 2 = 1 THEN <<"a", " ">> ELSE LongTitle
Script == "hello"
AlNum == {"a"}      \* the characters of Titles for which str.isalnum() holds

NoTime == 0
NoVideo == [id |-> 0, title |-> <<>>]
NoCur == [id |-> 0, title |-> <<>>, script |-> ""]
EmptyPath == <<>>
NoCounts == [processed_count |-> 0, failed_count |-> 0]

VARIABLES
    videos,       \* the videos table: rows in insertion order
    statusFile,   \* automation_status.json: [state, data]
    now,          \* the clock read by datetime.now()
    pc,           \* daemon_mode: position of the daemon process
    batch,        \* daemon_mode: the rest of `videos` in the for loop
    cur,          \* daemon_mode: the video of the current iteration
    success,      \* daemon_mode: result of launch_vrew_automation
    status,       \* daemon_mode: result of get_status() at line 239
    pending,      \* update_status: the merged dict about to be written
    output_path,  \* launch_vrew_automation: output_path of the last dispatch
    storeUp,      \* environment: whether database.db can be opened and written
    dispatched,   \* history: dispatches completed by the current run
    outcome,      \* history: what the adapter did in the current dispatch
    pre,          \* history: the snapshot's counters when the dispatch began
    left_by,      \* history: how the current run left daemon_mode
    resets,       \* history: number of external resets so far
    statusUp,     \* environment: whether automation_status.json can be written
    ppc,          \* process_one: position of a --process-one process
    pcur,         \* process_one: videos[0]
    ppending,     \* process_one: the merged dict of its update_status
    poutput,      \* process_one: output_path of its launch_vrew_automation
    poutcome,     \* history: what the adapter did for process_one
    exits,        \* history: the (outcome, exit status) pairs of --process-one runs
    shown,        \* show_status: what the last --status run has read
    call,         \* history: the last direct call of update_video_status
    desk          \* desktop_automate_vrew: the batch runner's process

vars == <<videos, statusFile, now, pc, batch, cur, success, status, pending,
          output_path, storeUp, dispatched, outcome, pre, left_by, resets,
          statusUp, ppc, pcur, ppending, poutput, poutcome, exits, shown, call,
          desk>>

One_vars == <<ppc, pcur, ppending, poutput, poutcome, exits>>
\* what the daemon and the actors around it leave alone
Rest == <<statusUp, One_vars, shown, call, desk>>

\* ------------------------------------------------------------ Job Store
Min(a, b) == IF a < b THEN a ELSE b

RowIds == { videos[i].id : i \in DOMAIN videos }

RowOf(id) == videos[CHOOSE i \in DOMAIN videos : videos[i].id = id]

IdsWithStatus(s) == { videos[i].id : i \in { j \in DOMAIN videos : videos[j].status = s } }

\* a WHERE clause that also selects the failed jobs
IsPlannedOrFailed(row) == row.status \in {"planned", "failed"}

IsPlanned(row) == row.status = "planned"

Project(row) == [id |-> row.id, title |-> row.title, script |-> row.script]

RECURSIVE OrderById(_)
OrderById(rows) ==
    IF rows = <<>> THEN <<>>
    ELSE LET m == CHOOSE i \in DOMAIN rows :
                      \A j \in DOMAIN rows : rows[i].id <= rows[j].id
             rest == [k \in 1..(Len(rows) - 1) |->
                          IF k < m THEN rows[k] ELSE rows[k + 1]]
         IN  <<rows[m]>> \o OrderById(rest)

\* the query without its ORDER BY: the rows come in insertion order
get_planned_videos_unordered ==
    LET planned == SelectSeq(videos, IsPlanned)
    IN  [i \in DOMAIN planned |-> Project(planned[i])]

\* SELECT id, title, script FROM videos WHERE status='planned' ORDER BY id
get_planned_videos ==
    LET planned == OrderById(SelectSeq(videos, IsPlanned))
    IN  [i \in DOMAIN planned |-> Project(planned[i])]

\* the UPDATE without its WHERE clause: every row is written
update_video_status_all(video_id, new_status, file_path) ==
    [i \in DOMAIN videos |->
        [videos[i] EXCEPT !.status = new_status, !.file_path = file_path]]

\* UPDATE videos SET status=?, file_path=? WHERE id=?
update_video_status(video_id, new_status, file_path) ==
    [i \in DOMAIN videos |->
        IF videos[i].id = video_id
        THEN [videos[i] EXCEPT !.status = new_status, !.file_path = file_path]
        ELSE videos[i]]

\* ------------------------------------------------------ Status Reporter
DefaultStatus ==
    [running |-> FALSE, current_video |-> NoVideo, last_update |-> NoTime,
     processed_count |-> 0, failed_count |-> 0]

\* a read without the try: whatever is in the file comes back
get_status_unguarded ==
    IF statusFile.state = "missing" THEN DefaultStatus ELSE statusFile.data

get_status ==
    IF statusFile.state = "ok" THEN statusFile.data ELSE DefaultStatus

\* an update that starts from the default dict, not from the file
MergedFromDefault(updates, t) ==
    LET s == DefaultStatus
        u == [k \in (DOMAIN s) \cup (DOMAIN updates) |->
                 IF k \in DOMAIN updates THEN updates[k] ELSE s[k]]
    IN  [u EXCEPT !.last_update = t]

\* status = get_status(); status.update(updates); status["last_update"] = now
Merged(updates, t) ==
    LET s == get_status
        u == [k \in (DOMAIN s) \cup (DOMAIN updates) |->
                 IF k \in DOMAIN updates THEN updates[k] ELSE s[k]]
    IN  [u EXCEPT !.last_update = t]

\* the read half of update_status: read, merge and stamp into `pending`
BeginUpdate(updates) ==
    /\ pending' = Merged(updates, now)
    /\ UNCHANGED now

\* the write half of update_status: json.dump(status, f)
CommitUpdate ==
    /\ statusUp
    /\ statusFile' = [state |-> "ok", data |-> pending]

\* a write that raises: open() failed and the file is as it was, or the
\* file was truncated and holds a part of the new text
FailedUpdate(text) ==
    /\ ~statusUp
    /\ \E damaged \in BOOLEAN :
        statusFile' = IF damaged THEN [state |-> "corrupt", data |-> text]
                                 ELSE statusFile

\* -------------------------------------------------------------- adapter
\* "".join(c if c.isalnum() else "_" for c in title)[:20]
safe_title(title) ==
    [i \in 1..Min(Len(title), SafeTitleLen) |->
        IF title[i] \in AlNum THEN title[i] ELSE "_"]

\* OUTPUT_DIR / f"video_{video_id}_{safe_title}.mp4"
OutputPath(video_id, title) == <<video_id, safe_title(title)>>

Counts(s) == [processed_count |-> s.processed_count, failed_count |-> s.failed_count]

\* nothing read yet by --status; no direct call of update_video_status yet
NoShown == [read |-> FALSE, file |-> "missing", status |-> DefaultStatus, pending |-> <<>>]
NoCall == [id |-> 0, found |-> TRUE, result |-> "none"]

\* the batch runner is not running
NoDesk ==
    [pc |-> "idle", rest |-> <<>>, cur |-> NoCur, outcome |-> "none",
     output_path |-> EmptyPath, success_count |-> 0, fail_count |-> 0, listed |-> 0]

\* ----------------------------------------------------------------- Init
Init ==
    /\ videos = <<>>
    /\ statusFile = [state |-> "missing", data |-> DefaultStatus]
    /\ now = 1
    /\ pc = "stopped"
    /\ batch = <<>>
    /\ cur = NoCur
    /\ success = FALSE
    /\ status = DefaultStatus
    /\ pending = DefaultStatus
    /\ output_path = EmptyPath
    /\ storeUp = TRUE
    /\ dispatched = 0
    /\ outcome = "none"
    /\ pre = NoCounts
    /\ left_by = "none"
    /\ resets = 0
    /\ statusUp = TRUE
    /\ ppc = "idle"
    /\ pcur = NoCur
    /\ ppending = DefaultStatus
    /\ poutput = EmptyPath
    /\ poutcome = "none"
    /\ exits = {}
    /\ shown = NoShown
    /\ call = NoCall
    /\ desk = NoDesk

\* ------------------------------------------------------ external actors
Locals == <<batch, cur, success, status, output_path>>
History == <<dispatched, outcome, pre, left_by>>
Daemon_vars == <<pc, pending, Locals, History>>

\* a job is created outside the core, as planned with an empty file_path
InsertJob ==
    \E id \in Ids \ RowIds :
        /\ videos' = Append(videos, [id |-> id, title |-> TitleOf(id), script |-> Script,
                                     status |-> "planned", file_path |-> EmptyPath])
        /\ UNCHANGED <<statusFile, now, storeUp, resets, Daemon_vars, Rest>>

\* an external actor sets a finished job back to planned
ResetJob ==
    \E id \in IdsWithStatus("failed") \cup IdsWithStatus("downloaded") :
        /\ resets < MaxResets
        /\ resets' = resets + 1
        /\ videos' = update_video_status(id, "planned", EmptyPath)
        /\ UNCHANGED <<statusFile, now, storeUp, Daemon_vars, Rest>>

\* what update_video_status gives its caller: it never looks at the number of
\* rows the UPDATE matched, logs "status updated" and returns None
update_video_status_result(video_id) == "ok"

\* a caller of the Job Store makes one transition, of a job id that may not exist
CallStates == {"planned", "processing", "downloaded", "failed"}
CallPaths(id) == {EmptyPath, OutputPath(id, TitleOf(id))}

CallTransition ==
    \E id \in Ids, new_status \in CallStates :
      \E file_path \in CallPaths(id) :
        /\ storeUp
        /\ videos' = update_video_status(id, new_status, file_path)
        /\ call' = [id |-> id, found |-> id \in RowIds,
                    result |-> update_video_status_result(id)]
        /\ UNCHANGED <<statusFile, now, storeUp, resets, Daemon_vars,
                       statusUp, One_vars, shown, desk>>

\* time passes
Tick ==
    /\ now < MaxClock
    /\ now' = now + 1
    /\ UNCHANGED <<videos, statusFile, storeUp, resets, Daemon_vars, Rest>>

\* the status file becomes unwritable, and writable again
StatusDown ==
    /\ statusUp
    /\ statusUp' = FALSE
    /\ UNCHANGED <<videos, statusFile, now, storeUp, resets, Daemon_vars,
                   One_vars, shown, call, desk>>

StatusBack ==
    /\ ~statusUp
    /\ statusUp' = TRUE
    /\ UNCHANGED <<videos, statusFile, now, storeUp, resets, Daemon_vars,
                   One_vars, shown, call, desk>>

\* the database becomes unavailable, and available again
StoreDown ==
    /\ storeUp
    /\ storeUp' = FALSE
    /\ UNCHANGED <<videos, statusFile, now, resets, Daemon_vars, Rest>>

StoreBack ==
    /\ ~storeUp
    /\ storeUp' = TRUE
    /\ UNCHANGED <<videos, statusFile, now, resets, Daemon_vars, Rest>>

\* ---------------------------------------------------------- daemon_mode
\* the positions inside launch_vrew_automation, and inside the try of daemon_mode
LaunchPcs == {"import", "mark", "current_r", "current_w", "adapter",
              "write_downloaded", "write_failed", "except"}
TryPcs == {"list", "get_status", "inc_r", "inc_w", "pause", "sleep"} \cup LaunchPcs

\* the locals of daemon_mode are gone once it has returned
DropLocals ==
    /\ batch' = <<>>
    /\ cur' = NoCur
    /\ success' = FALSE
    /\ status' = DefaultStatus
    /\ pending' = DefaultStatus
    /\ output_path' = EmptyPath

\* a start that does not reset the counters
StartUpdatesKeepCounts == [running |-> TRUE]

\* a start that resets the counters and does not say running
StartUpdatesNotRunning == [processed_count |-> 0, failed_count |-> 0]

\* update_status({"running": True, "processed_count": 0, "failed_count": 0})
StartUpdates == [running |-> TRUE, processed_count |-> 0, failed_count |-> 0]

DaemonStart ==
    /\ pc = "stopped"
    /\ BeginUpdate(StartUpdates)
    /\ pc' = "start_w"
    /\ dispatched' = 0
    /\ outcome' = "none"
    /\ pre' = NoCounts
    /\ left_by' = "none"
    /\ UNCHANGED <<videos, statusFile, storeUp, resets, Locals, Rest>>

StartWrite ==
    /\ pc = "start_w"
    /\ CommitUpdate
    /\ pc' = "check"
    /\ UNCHANGED <<videos, now, storeUp, resets, pending, Locals, History, Rest>>

\* if not check_vrew_installed(): return
CheckInstalled ==
    /\ pc = "check"
    /\ \E installed \in BOOLEAN :
        IF installed
        THEN /\ pc' = "list"
             /\ UNCHANGED <<pending, Locals, left_by>>
        ELSE /\ pc' = "stopped"
             /\ left_by' = "not_installed"
             /\ DropLocals
    /\ UNCHANGED <<videos, statusFile, now, storeUp, resets, dispatched, outcome, pre, Rest>>

\* for video in videos: video_id, title, script = video; launch_vrew_automation(...)
\* and, once `videos` is used up (or was empty), on to time.sleep(60)
Advance(rest) ==
    IF rest = <<>>
    THEN /\ pc' = "sleep"
         /\ batch' = <<>>
         /\ UNCHANGED <<cur, outcome, pre>>
    ELSE /\ pc' = "import"
         /\ cur' = Head(rest)
         /\ batch' = Tail(rest)
         /\ outcome' = "none"
         /\ pre' = Counts(get_status)

\* videos = get_planned_videos(); if videos: for video in videos ...
ListPlanned ==
    /\ pc = "list"
    /\ storeUp
    /\ Advance(get_planned_videos)
    /\ UNCHANGED <<videos, statusFile, now, storeUp, resets, pending, success, status,
                   output_path, dispatched, left_by, Rest>>

\* import pyautogui; import pyperclip (inside the try of launch_vrew_automation)
Import ==
    /\ pc = "import"
    /\ \E ok \in BOOLEAN :
        IF ok
        THEN /\ pc' = "mark"
             /\ UNCHANGED outcome
        ELSE /\ pc' = "except"
             /\ outcome' = "import_error"
    /\ UNCHANGED <<videos, statusFile, now, storeUp, resets, pending, Locals,
                   dispatched, pre, left_by, Rest>>

\* a dispatch that goes on without writing the job as processing
MarkProcessingSkipped ==
    /\ pc = "mark"
    /\ storeUp
    /\ pc' = "current_r"
    /\ UNCHANGED <<videos, statusFile, now, storeUp, resets, pending, Locals, History, Rest>>

\* update_video_status(video_id, "processing")
MarkProcessing ==
    /\ pc = "mark"
    /\ storeUp
    /\ videos' = update_video_status(cur.id, "processing", EmptyPath)
    /\ pc' = "current_r"
    /\ UNCHANGED <<statusFile, now, storeUp, resets, pending, Locals, History, Rest>>

\* update_status({"current_video": {"id": video_id, "title": title}})
CurrentUpdates == [current_video |-> [id |-> cur.id, title |-> cur.title]]

CurrentRead ==
    /\ pc = "current_r"
    /\ BeginUpdate(CurrentUpdates)
    /\ pc' = "current_w"
    /\ UNCHANGED <<videos, statusFile, storeUp, resets, Locals, History, Rest>>

CurrentWrite ==
    /\ pc = "current_w"
    /\ CommitUpdate
    /\ pc' = "adapter"
    /\ UNCHANGED <<videos, now, storeUp, resets, pending, Locals, History, Rest>>

\* the UI workflow: it raises an Exception somewhere, or it runs to its end with
\* output_path set, and the exported file exists or does not
AdapterOutcomes == {"file", "no_file", "raised"}

\* a workflow end that does not look for the file
AfterAdapterNoCheck(o) ==
    CASE o \in {"file", "no_file"} -> "write_downloaded"
      [] OTHER -> "except"

AfterAdapter(o) ==
    CASE o = "file" -> "write_downloaded"
      [] o = "no_file" -> "write_failed"
      [] OTHER -> "except"

Adapter ==
    /\ pc = "adapter"
    /\ \E o \in AdapterOutcomes :
        /\ outcome' = o
        /\ pc' = AfterAdapter(o)
        /\ output_path' = IF o = "raised" THEN EmptyPath ELSE OutputPath(cur.id, cur.title)
    /\ UNCHANGED <<videos, statusFile, now, storeUp, resets, pending, batch, cur, success,
                   status, dispatched, pre, left_by, Rest>>

\* launch_vrew_automation has returned `result` to daemon_mode
Returned(result) ==
    /\ success' = result
    /\ dispatched' = dispatched + 1
    /\ pc' = "get_status"
    /\ UNCHANGED <<statusFile, now, storeUp, resets, pending, batch, cur, status,
                   output_path, outcome, pre, left_by, Rest>>

\* a success branch that returns True without its write
WriteDownloadedNotWritten ==
    /\ pc = "write_downloaded"
    /\ storeUp
    /\ UNCHANGED videos
    /\ Returned(TRUE)

\* a success branch in two writes: the status first, the path after it
WriteDownloadedTwoWrites ==
    /\ pc = "write_downloaded"
    /\ storeUp
    /\ IF RowOf(cur.id).status # "downloaded"
       THEN /\ videos' = update_video_status(cur.id, "downloaded", RowOf(cur.id).file_path)
            /\ UNCHANGED <<statusFile, now, storeUp, resets, Daemon_vars, Rest>>
       ELSE /\ videos' = update_video_status(cur.id, "downloaded", output_path)
            /\ Returned(TRUE)

\* a success branch that drops the path
WriteDownloadedNoPath ==
    /\ pc = "write_downloaded"
    /\ storeUp
    /\ videos' = update_video_status(cur.id, "downloaded", EmptyPath)
    /\ Returned(TRUE)

\* update_video_status(video_id, "downloaded", str(output_path)); return True
WriteDownloaded ==
    /\ pc = "write_downloaded"
    /\ storeUp
    /\ videos' = update_video_status(cur.id, "downloaded", output_path)
    /\ Returned(TRUE)

\* a failure branch that passes the path of the missing file
WriteFailedWithPath ==
    /\ pc = "write_failed"
    /\ storeUp
    /\ videos' = update_video_status(cur.id, "failed", output_path)
    /\ Returned(FALSE)

\* update_video_status(video_id, "failed"); return False
WriteFailed ==
    /\ pc = "write_failed"
    /\ storeUp
    /\ videos' = update_video_status(cur.id, "failed", EmptyPath)
    /\ Returned(FALSE)

\* an except clause that does not write the job as failed
ExceptNoWrite ==
    /\ pc = "except"
    /\ storeUp
    /\ UNCHANGED videos
    /\ Returned(FALSE)

\* except Exception: update_video_status(video_id, "failed"); return False
Except ==
    /\ pc = "except"
    /\ storeUp
    /\ videos' = update_video_status(cur.id, "failed", EmptyPath)
    /\ Returned(FALSE)

\* status = get_status()
GetStatus ==
    /\ pc = "get_status"
    /\ status' = get_status
    /\ pc' = "inc_r"
    /\ UNCHANGED <<videos, statusFile, now, storeUp, resets, pending, batch, cur, success,
                   output_path, History, Rest>>

\* if success: update_status({"processed_count": ... + 1}) else: failed_count
CountUpdates ==
    IF success
    THEN [processed_count |-> status.processed_count + 1]
    ELSE [failed_count |-> status.failed_count + 1]

IncRead ==
    /\ pc = "inc_r"
    /\ BeginUpdate(CountUpdates)
    /\ pc' = "inc_w"
    /\ UNCHANGED <<videos, statusFile, storeUp, resets, Locals, History, Rest>>

IncWrite ==
    /\ pc = "inc_w"
    /\ CommitUpdate
    /\ pc' = "pause"
    /\ UNCHANGED <<videos, now, storeUp, resets, pending, Locals, History, Rest>>

\* a for loop over a live query: each iteration asks the store again
PauseRequery ==
    /\ pc = "pause"
    /\ Advance(get_planned_videos)
    /\ UNCHANGED <<videos, statusFile, now, storeUp, resets, pending, success, status,
                   output_path, dispatched, left_by, Rest>>

\* time.sleep(5), then the next iteration of the for loop
Pause ==
    /\ pc = "pause"
    /\ Advance(batch)
    /\ UNCHANGED <<videos, statusFile, now, storeUp, resets, pending, success, status,
                   output_path, dispatched, left_by, Rest>>

\* a poll that stamps the snapshot on its way to the next pass
SleepHeartbeat ==
    /\ pc = "sleep"
    /\ pc' = "list"
    /\ statusFile' = [statusFile EXCEPT !.data.last_update = now]
    /\ UNCHANGED <<videos, now, storeUp, resets, pending, Locals, History, Rest>>

\* time.sleep(60), then the next iteration of while True
Sleep ==
    /\ pc = "sleep"
    /\ pc' = "list"
    /\ UNCHANGED <<videos, statusFile, now, storeUp, resets, pending, Locals, History, Rest>>

\* an error or an interrupt leaves the try block of daemon_mode for its finally
Leave(why) ==
    /\ pc' = "finally_r"
    /\ left_by' = why
    /\ UNCHANGED <<videos, statusFile, now, storeUp, resets, pending, Locals,
                   dispatched, outcome, pre, Rest>>

\* an interrupt that the except clause of launch_vrew_automation catches
InterruptCaught ==
    /\ pc \in TryPcs
    /\ pc' = IF pc \in LaunchPcs THEN "except" ELSE "finally_r"
    /\ left_by' = "interrupt"
    /\ UNCHANGED <<videos, statusFile, now, storeUp, resets, pending, Locals,
                   dispatched, outcome, pre, Rest>>

\* KeyboardInterrupt inside the try block: it is no Exception, so the except
\* clause of launch_vrew_automation lets it pass; daemon_mode goes to finally
Interrupt ==
    /\ pc \in TryPcs
    /\ Leave("interrupt")

\* a finally that does not clear current_video
FinallyUpdatesKeepCurrent == [running |-> FALSE]

\* finally: update_status({"running": False, "current_video": None})
FinallyUpdates == [running |-> FALSE, current_video |-> NoVideo]

FinallyRead ==
    /\ pc = "finally_r"
    /\ BeginUpdate(FinallyUpdates)
    /\ pc' = "finally_w"
    /\ UNCHANGED <<videos, statusFile, storeUp, resets, Locals, History, Rest>>

FinallyWrite ==
    /\ pc = "finally_w"
    /\ CommitUpdate
    /\ pc' = "stopped"
    /\ DropLocals
    /\ UNCHANGED <<videos, now, storeUp, resets, History, Rest>>

\* --------------------------------------------- the store is unavailable
\* get_planned_videos raises in the while loop: nothing catches it before finally
ListFails ==
    /\ pc = "list"
    /\ ~storeUp
    /\ Leave("error")

\* update_video_status raises inside the try of launch_vrew_automation
StoreCallPcs == {"mark", "write_downloaded", "write_failed"}

StoreCallFails ==
    /\ pc \in StoreCallPcs
    /\ ~storeUp
    /\ pc' = "except"
    /\ UNCHANGED <<videos, statusFile, now, storeUp, resets, pending, Locals, History, Rest>>

\* update_video_status raises inside the except clause: launch_vrew_automation raises
ExceptFails ==
    /\ pc = "except"
    /\ ~storeUp
    /\ Leave("error")

\* ------------------------------------- the status file cannot be written
\* line 224 is outside the try: the error ends daemon_mode, no finally runs
StartWriteFails ==
    /\ pc = "start_w"
    /\ FailedUpdate(pending)
    /\ pc' = "stopped"
    /\ left_by' = "error"
    /\ DropLocals
    /\ UNCHANGED <<videos, now, storeUp, resets, dispatched, outcome, pre, Rest>>

\* line 118 is inside the try of launch_vrew_automation: on to its except clause
CurrentWriteFails ==
    /\ pc = "current_w"
    /\ FailedUpdate(pending)
    /\ pc' = "except"
    /\ UNCHANGED <<videos, now, storeUp, resets, pending, Locals, History, Rest>>

\* lines 241 and 243 are inside the try of daemon_mode only: on to its finally
IncWriteFails ==
    /\ pc = "inc_w"
    /\ FailedUpdate(pending)
    /\ pc' = "finally_r"
    /\ left_by' = "error"
    /\ UNCHANGED <<videos, now, storeUp, resets, pending, Locals,
                   dispatched, outcome, pre, Rest>>

\* line 254 raises inside the finally clause: daemon_mode ends with the error
FinallyWriteFails ==
    /\ pc = "finally_w"
    /\ FailedUpdate(pending)
    /\ pc' = "stopped"
    /\ DropLocals
    /\ UNCHANGED <<videos, now, storeUp, resets, History, Rest>>

StatusFaults ==
    \/ StatusDown \/ StatusBack
    \/ StartWriteFails \/ CurrentWriteFails \/ IncWriteFails \/ FinallyWriteFails

\* ----------------------------------------------------------- show_status
\* a slice that keeps the whole list
TakeAll(seq, n) == seq

Take(seq, n) == SubSeq(seq, 1, Min(Len(seq), n))

\* status = get_status(); videos = get_planned_videos(); for v in videos[:5]
ShowStatus ==
    /\ storeUp
    /\ shown' = [read |-> TRUE, file |-> statusFile.state, status |-> get_status,
                 pending |-> [k \in DOMAIN Take(get_planned_videos, PendingShown) |->
                                 get_planned_videos[k].id]]
    /\ UNCHANGED <<videos, statusFile, now, storeUp, resets, Daemon_vars,
                   statusUp, One_vars, call, desk>>

\* the --status process has printed and ended
ShowDone ==
    /\ shown.read
    /\ shown' = NoShown
    /\ UNCHANGED <<videos, statusFile, now, storeUp, resets, Daemon_vars,
                   statusUp, One_vars, call, desk>>

\* ----------------------------------------------------------- process_one
\* what process_one and main leave alone
NotOne == <<now, storeUp, resets, statusUp, Daemon_vars, shown, call, desk>>

\* the exit status of the interpreter: main() returns None and nothing calls
\* sys.exit, so it is 0 unless an exception leaves main()
ExitStatus(raised) == IF raised THEN 1 ELSE 0

\* main() has ended: process_one() at line 297 is a statement, its result is
\* not looked at
MainEnds(kind, raised) ==
    /\ exits' = exits \cup {[kind |-> kind, code |-> ExitStatus(raised)]}
    /\ ppc' = "idle"
    /\ pcur' = NoCur
    /\ ppending' = DefaultStatus
    /\ poutput' = EmptyPath
    /\ poutcome' = "none"

\* a process_one that takes the last of the planned jobs
P1ListPlannedLast ==
    /\ ppc = "idle"
    /\ storeUp
    /\ IF get_planned_videos = <<>>
       THEN MainEnds("nothing", FALSE)
       ELSE /\ ppc' = "import"
            /\ pcur' = get_planned_videos[Len(get_planned_videos)]
            /\ UNCHANGED <<ppending, poutput, poutcome, exits>>
    /\ UNCHANGED <<videos, statusFile, NotOne>>

\* videos = get_planned_videos(); if not videos: return False; videos[0]
P1ListPlanned ==
    /\ ppc = "idle"
    /\ storeUp
    /\ IF get_planned_videos = <<>>
       THEN MainEnds("nothing", FALSE)
       ELSE /\ ppc' = "import"
            /\ pcur' = Head(get_planned_videos)
            /\ UNCHANGED <<ppending, poutput, poutcome, exits>>
    /\ UNCHANGED <<videos, statusFile, NotOne>>

\* get_planned_videos raises: nothing in process_one or main catches it
P1ListFails ==
    /\ ppc = "idle"
    /\ ~storeUp
    /\ MainEnds("fatal", TRUE)
    /\ UNCHANGED <<videos, statusFile, NotOne>>

P1Import ==
    /\ ppc = "import"
    /\ \E ok \in BOOLEAN :
        IF ok
        THEN /\ ppc' = "mark"
             /\ UNCHANGED poutcome
        ELSE /\ ppc' = "except"
             /\ poutcome' = "import_error"
    /\ UNCHANGED <<videos, statusFile, pcur, ppending, poutput, exits, NotOne>>

P1MarkProcessing ==
    /\ ppc = "mark"
    /\ storeUp
    /\ videos' = update_video_status(pcur.id, "processing", EmptyPath)
    /\ ppc' = "current_r"
    /\ UNCHANGED <<statusFile, pcur, ppending, poutput, poutcome, exits, NotOne>>

P1CurrentRead ==
    /\ ppc = "current_r"
    /\ ppending' = Merged([current_video |-> [id |-> pcur.id, title |-> pcur.title]], now)
    /\ ppc' = "current_w"
    /\ UNCHANGED <<videos, statusFile, pcur, poutput, poutcome, exits, NotOne>>

P1CurrentWrite ==
    /\ ppc = "current_w"
    /\ statusUp
    /\ statusFile' = [state |-> "ok", data |-> ppending]
    /\ ppc' = "adapter"
    /\ UNCHANGED <<videos, pcur, ppending, poutput, poutcome, exits, NotOne>>

P1CurrentWriteFails ==
    /\ ppc = "current_w"
    /\ FailedUpdate(ppending)
    /\ ppc' = "except"
    /\ UNCHANGED <<videos, pcur, ppending, poutput, poutcome, exits, NotOne>>

P1Adapter ==
    /\ ppc = "adapter"
    /\ \E o \in AdapterOutcomes :
        /\ poutcome' = o
        /\ ppc' = AfterAdapter(o)
        /\ poutput' = IF o = "raised" THEN EmptyPath ELSE OutputPath(pcur.id, pcur.title)
    /\ UNCHANGED <<videos, statusFile, pcur, ppending, exits, NotOne>>

\* launch_vrew_automation returns True, process_one returns it to main
P1WriteDownloaded ==
    /\ ppc = "write_downloaded"
    /\ storeUp
    /\ videos' = update_video_status(pcur.id, "downloaded", poutput)
    /\ MainEnds("processed", FALSE)
    /\ UNCHANGED <<statusFile, NotOne>>

\* launch_vrew_automation returns False
P1WriteFailed ==
    /\ ppc = "write_failed"
    /\ storeUp
    /\ videos' = update_video_status(pcur.id, "failed", EmptyPath)
    /\ MainEnds("failed", FALSE)
    /\ UNCHANGED <<statusFile, NotOne>>

P1Except ==
    /\ ppc = "except"
    /\ storeUp
    /\ videos' = update_video_status(pcur.id, "failed", EmptyPath)
    /\ MainEnds("failed", FALSE)
    /\ UNCHANGED <<statusFile, NotOne>>

P1StoreCallFails ==
    /\ ppc \in StoreCallPcs
    /\ ~storeUp
    /\ ppc' = "except"
    /\ UNCHANGED <<videos, statusFile, pcur, ppending, poutput, poutcome, exits, NotOne>>

\* update_video_status raises inside the except clause: the error leaves main
P1ExceptFails ==
    /\ ppc = "except"
    /\ ~storeUp
    /\ MainEnds("fatal", TRUE)
    /\ UNCHANGED <<videos, statusFile, NotOne>>

ProcessOne ==
    \/ P1ListPlanned \/ P1Import \/ P1MarkProcessing \/ P1CurrentRead \/ P1CurrentWrite
    \/ P1Adapter \/ P1WriteDownloaded \/ P1WriteFailed \/ P1Except

OneFaults ==
    \/ StoreDown \/ StoreBack \/ StatusDown \/ StatusBack
    \/ P1ListFails \/ P1StoreCallFails \/ P1ExceptFails \/ P1CurrentWriteFails

Daemon ==
    \/ DaemonStart \/ StartWrite \/ CheckInstalled
    \/ ListPlanned
    \/ Import \/ MarkProcessing \/ CurrentRead \/ CurrentWrite \/ Adapter
    \/ WriteDownloaded \/ WriteFailed \/ Except
    \/ GetStatus \/ IncRead \/ IncWrite \/ Pause \/ Sleep
    \/ Interrupt \/ FinallyRead \/ FinallyWrite

StoreFaults == StoreDown \/ StoreBack \/ ListFails \/ StoreCallFails \/ ExceptFails

\* one daemon and jobs created from outside; the store and the status file work
Next == InsertJob \/ Daemon

Spec == Init /\ [][Next]_vars

\* as Spec; once in its finally clause the daemon process goes on to its end
SpecStop == Spec /\ WF_vars(FinallyRead) /\ WF_vars(FinallyWrite)

\* the daemon with no interrupt delivered to it
DaemonLoop ==
    \/ DaemonStart \/ StartWrite \/ CheckInstalled
    \/ ListPlanned
    \/ Import \/ MarkProcessing \/ CurrentRead \/ CurrentWrite \/ Adapter
    \/ WriteDownloaded \/ WriteFailed \/ Except
    \/ GetStatus \/ IncRead \/ IncWrite \/ Pause \/ Sleep
    \/ FinallyRead \/ FinallyWrite

\* as Spec, and an external actor resets finished jobs
NextReset == InsertJob \/ ResetJob \/ Daemon

SpecReset == Init /\ [][NextReset]_vars

\* as Spec, and the store may be unavailable
NextStore == InsertJob \/ Daemon \/ StoreFaults

SpecStore == Init /\ [][NextStore]_vars

\* as Spec, and the clock advances
NextClock == InsertJob \/ Tick \/ Daemon

SpecClock == Init /\ [][NextClock]_vars

\* as Spec, and the status file may be unwritable
NextStatus == InsertJob \/ Daemon \/ StatusFaults

SpecStatus == Init /\ [][NextStatus]_vars

\* no interrupt and the store available: jobs are created and reset from
\* outside, every adapter call returns, the status file may be unwritable
NextLoop == InsertJob \/ ResetJob \/ DaemonLoop \/ StatusFaults

SpecLoop == Init /\ [][NextLoop]_vars

\* as SpecStatus, and a --status run reads in any state; what the others do
\* between its reads and its end does not matter to what it has read
Others == ~shown.read /\ NextStatus

NextRead == ShowStatus \/ ShowDone \/ Others

SpecRead == Init /\ [][NextRead]_vars

\* stores with more planned jobs than --status shows: one job more than
\* PendingShown, created in ascending or in descending order of id, each of
\* them planned or failed
ShowIds == 1..(PendingShown + 1)

ShowStore(desc, st) ==
    [i \in 1..(PendingShown + 1) |->
        LET id == IF desc THEN PendingShown + 2 - i ELSE i
        IN  [id |-> id, title |-> TitleOf(id), script |-> Script,
             status |-> st[id], file_path |-> EmptyPath]]

ShowStores ==
    { ShowStore(desc, st) : desc \in BOOLEAN, st \in [ShowIds -> {"planned", "failed"}] }

\* as Init, on the empty store or on one of ShowStores
InitShow ==
    /\ videos \in {<<>>} \cup ShowStores
    /\ statusFile = [state |-> "missing", data |-> DefaultStatus]
    /\ now = 1
    /\ pc = "stopped"
    /\ batch = <<>>
    /\ cur = NoCur
    /\ success = FALSE
    /\ status = DefaultStatus
    /\ pending = DefaultStatus
    /\ output_path = EmptyPath
    /\ storeUp = TRUE
    /\ dispatched = 0
    /\ outcome = "none"
    /\ pre = NoCounts
    /\ left_by = "none"
    /\ resets = 0
    /\ statusUp = TRUE
    /\ ppc = "idle"
    /\ pcur = NoCur
    /\ ppending = DefaultStatus
    /\ poutput = EmptyPath
    /\ poutcome = "none"
    /\ exits = {}
    /\ shown = NoShown
    /\ call = NoCall
    /\ desk = NoDesk

\* as SpecRead; the daemon runs on the stores of at most MaxJobs jobs, the
\* --status run reads all of them
OthersSmall == Len(videos) <= MaxJobs /\ Others

NextShow == ShowStatus \/ ShowDone \/ OthersSmall

SpecShow == InitShow /\ [][NextShow]_vars

\* a daemon and --process-one runs at the same time on one store and one
\* status file.  The two interleave where a process stays for long or is
\* between the read and the write of its update_status: the daemon steps
\* while --process-one is not running, is with the adapter or is about to
\* write the status file; --process-one steps while the daemon is stopped,
\* with the adapter or asleep
DaemonBeside == ppc \in {"idle", "current_w", "adapter"} /\ Daemon

OneBeside == pc \in {"stopped", "adapter", "sleep"} /\ ProcessOne

NextTwo == InsertJob \/ DaemonBeside \/ OneBeside

SpecTwo == Init /\ [][NextTwo]_vars

\* callers of the Job Store's transition, on jobs created from outside
NextCall == InsertJob \/ CallTransition

SpecCall == Init /\ [][NextCall]_vars

\* --process-one runs, one after the other, on jobs created from outside; the
\* store and the status file may fail
NextOne == InsertJob \/ ProcessOne \/ OneFaults

SpecOne == Init /\ [][NextOne]_vars

\* the three modes of main on one store and one status file, on jobs created
\* from outside: a daemon and --process-one runs, one of the two at a time,
\* and a --status run that reads in any state
NextCore ==
    \/ ShowStatus \/ ShowDone
    \/ (~shown.read /\ InsertJob)
    \/ (~shown.read /\ ppc = "idle" /\ Daemon)
    \/ (~shown.read /\ pc = "stopped" /\ ProcessOne)

SpecCore == Init /\ [][NextCore]_vars

\* ------------------------------------------- desktop_automate_vrew.main
\* the positions of the batch runner inside process_video
DeskPcs == {"mark", "adapter", "write_downloaded", "write_failed", "except"}

\* main up to its for loop: it returns when Vrew is not installed or no job
\* is planned; launch_vrew finds what the installation check has found.
\* `rest` are the jobs of `videos` the loop has not come to, `listed` is
\* len(videos)
DeskList ==
    /\ desk.pc = "idle"
    /\ storeUp
    /\ \E installed \in BOOLEAN :
        LET listing == get_planned_videos
        IN  desk' = IF installed /\ listing # <<>>
                    THEN [NoDesk EXCEPT !.pc = "mark", !.cur = Head(listing),
                                        !.rest = Tail(listing),
                                        !.listed = Len(listing)]
                    ELSE NoDesk
    /\ UNCHANGED <<videos, statusFile, now, storeUp, resets, Daemon_vars, statusUp,
                   One_vars, shown, call>>

\* update_video_status(video_id, "processing"), the first statement of the try
DeskMarkProcessing ==
    /\ desk.pc = "mark"
    /\ storeUp
    /\ videos' = update_video_status(desk.cur.id, "processing", EmptyPath)
    /\ desk' = [desk EXCEPT !.pc = "adapter"]
    /\ UNCHANGED <<statusFile, now, storeUp, resets, Daemon_vars, statusUp,
                   One_vars, shown, call>>

\* the loop of wait_for_generation ends when max_time has passed and the
\* function returns True
wait_for_generation == TRUE

\* return str(output_path) if output_path.exists() else ""
export_video(video_id, title, exists) ==
    IF exists THEN OutputPath(video_id, title) ELSE EmptyPath

\* where process_video goes on after the UI workflow
DeskAfter(o, path) ==
    CASE o = "raised" -> "except"
      [] ~wait_for_generation -> "write_failed"
      [] path # EmptyPath -> "write_downloaded"
      [] OTHER -> "write_failed"

\* create_new_project ... export_video: a step raises an Exception, or
\* export_video returns the path of the file or ""
DeskAdapter ==
    /\ desk.pc = "adapter"
    /\ \E o \in AdapterOutcomes :
        LET path == IF o = "raised" THEN EmptyPath
                    ELSE export_video(desk.cur.id, desk.cur.title, o = "file")
        IN  desk' = [desk EXCEPT !.outcome = o, !.output_path = path,
                                 !.pc = DeskAfter(o, path)]
    /\ UNCHANGED <<videos, statusFile, now, storeUp, resets, Daemon_vars, statusUp,
                   One_vars, shown, call>>

\* process_video has returned `result` to the for loop of main, which counts
\* it and goes to the next job of `videos`, or to the summary
DeskReturned(result) ==
    LET counted == IF result
                   THEN [desk EXCEPT !.success_count = @ + 1]
                   ELSE [desk EXCEPT !.fail_count = @ + 1]
    IN  /\ desk' = IF desk.rest = <<>>
                   THEN [counted EXCEPT !.pc = "summary"]
                   ELSE [counted EXCEPT !.pc = "mark", !.cur = Head(desk.rest),
                                        !.rest = Tail(desk.rest),
                                        !.outcome = "none",
                                        !.output_path = EmptyPath]
        /\ UNCHANGED <<statusFile, now, storeUp, resets, Daemon_vars, statusUp,
                       One_vars, shown, call>>

\* update_video_status(video_id, "downloaded", output_path); return True
DeskWriteDownloaded ==
    /\ desk.pc = "write_downloaded"
    /\ storeUp
    /\ videos' = update_video_status(desk.cur.id, "downloaded", desk.output_path)
    /\ DeskReturned(TRUE)

\* update_video_status(video_id, "failed"); return False
DeskWriteFailed ==
    /\ desk.pc = "write_failed"
    /\ storeUp
    /\ videos' = update_video_status(desk.cur.id, "failed", EmptyPath)
    /\ DeskReturned(FALSE)

\* except Exception: update_video_status(video_id, "failed"); return False
DeskExcept ==
    /\ desk.pc = "except"
    /\ storeUp
    /\ videos' = update_video_status(desk.cur.id, "failed", EmptyPath)
    /\ DeskReturned(FALSE)

\* the summary is printed and the process ends
DeskSummary ==
    /\ desk.pc = "summary"
    /\ desk' = NoDesk
    /\ UNCHANGED <<videos, statusFile, now, storeUp, resets, Daemon_vars, statusUp,
                   One_vars, shown, call>>

\* Ctrl+C inside process_video: KeyboardInterrupt is no Exception, no clause
\* of process_video or main catches it and the process ends
DeskInterrupt ==
    /\ desk.pc \in DeskPcs
    /\ desk' = NoDesk
    /\ UNCHANGED <<videos, statusFile, now, storeUp, resets, Daemon_vars, statusUp,
                   One_vars, shown, call>>

Desk ==
    \/ DeskList \/ DeskMarkProcessing \/ DeskAdapter \/ DeskWriteDownloaded
    \/ DeskWriteFailed \/ DeskExcept \/ DeskSummary \/ DeskInterrupt

\* the batch runner and the daemon on one store, one of the two at a time, on
\* jobs created from outside
NextDesk ==
    \/ InsertJob
    \/ (desk.pc = "idle" /\ Daemon)
    \/ (pc = "stopped" /\ Desk)

SpecDesk == Init /\ [][NextDesk]_vars

\* ===================================================================
\* Properties
\* ===================================================================
Terminal == {"downloaded", "failed"}
FailOutcomes == {"no_file", "raised", "import_error"}
Snapshot == get_status
CountSum(snap) == snap.processed_count + snap.failed_count

\* the positions at which `cur` is the job being dispatched
InDispatch == LaunchPcs \cup {"get_status", "inc_r", "inc_w", "pause"}

LifecycleStep(a, b) ==
    \/ a = b
    \/ a = "planned" /\ b = "processing"
    \/ a = "processing" /\ b \in Terminal

\* C1: in every step every job keeps its state or moves one step along
\* planned -> processing -> (downloaded | failed); in particular no job goes
\* from planned straight to a terminal state.
C1_Lifecycle ==
    [][\A i \in DOMAIN videos : LifecycleStep(videos[i].status, videos'[i].status)]_vars

\* C2: at most one job has state processing, in every reachable state.
C2_AtMostOneProcessing == Cardinality(IdsWithStatus("processing")) <= 1

\* C3: a pass lists exactly the planned jobs, and every job still waiting in
\* the pass has a higher id than the job being dispatched and than the jobs
\* waiting before it: the jobs of a pass are dispatched in ascending id order.
C3_Ascending ==
    pc \in InDispatch =>
        /\ \A k \in DOMAIN batch : cur.id < batch[k].id
        /\ \A k, l \in DOMAIN batch : k < l => batch[k].id < batch[l].id

C3_ListsPlanned ==
    (pc = "list" /\ pc' \in {"import", "sleep"}) =>
        IdsWithStatus("planned") =
            (IF pc' = "import" THEN {cur'.id} ELSE {})
                \cup { batch'[k].id : k \in DOMAIN batch' }

C3_AscendingDispatch == []C3_Ascending /\ [][C3_ListsPlanned]_vars

\* jobs 2 and 1 were inserted in that order, both were listed, and job 1 has
\* been moved to processing while job 2 waits
C3_Witness ==
    /\ pc = "current_r"
    /\ Len(videos) = 2
    /\ videos[1].id = 2
    /\ videos[2].id = 1
    /\ videos[2].status = "processing"
    /\ cur.id = 1
    /\ Len(batch) = 1
    /\ batch[1].id = 2

\* C4: between two dispatches of a run the two counters of the snapshot add
\* up to the number of dispatches the run has completed, counted from zero at
\* each start.
C4_CountsMatchDispatched ==
    pc \in {"check", "list", "pause", "sleep"} => CountSum(Snapshot) = dispatched

\* the run has completed one dispatch, and another job was finished before
C4_Witness ==
    /\ pc = "pause"
    /\ dispatched = 1
    /\ CountSum(Snapshot) = 1
    /\ Cardinality(IdsWithStatus("downloaded") \cup IdsWithStatus("failed")) = 2

\* C5: when the adapter ended with its output file at output_path, then after
\* the dispatch the job is downloaded with that path, processed_count is one
\* more than before the dispatch and failed_count is what it was.
C5_SuccessRecorded ==
    (pc = "pause" /\ outcome = "file") =>
        /\ RowOf(cur.id).status = "downloaded"
        /\ RowOf(cur.id).file_path = output_path
        /\ output_path = OutputPath(cur.id, RowOf(cur.id).title)
        /\ Snapshot.processed_count = pre.processed_count + 1
        /\ Snapshot.failed_count = pre.failed_count

C5_Witness ==
    /\ pc = "pause"
    /\ outcome = "file"
    /\ cur.id = 1
    /\ Snapshot.processed_count = 1
    /\ Snapshot.failed_count = 0

\* C6: when the adapter failed (it raised, it could not be imported, or it
\* ended without a file), then after the dispatch the job is failed with an
\* empty file_path, failed_count is one more than before the dispatch,
\* processed_count is what it was and the snapshot says running; and the
\* daemon's next step, unless it is interrupted, starts the dispatch of the
\* next job of the batch.
C6_FailureState ==
    (pc = "pause" /\ outcome \in FailOutcomes) =>
        /\ RowOf(cur.id).status = "failed"
        /\ RowOf(cur.id).file_path = EmptyPath
        /\ Snapshot.failed_count = pre.failed_count + 1
        /\ Snapshot.processed_count = pre.processed_count
        /\ Snapshot.running

C6_GoesOn ==
    (pc = "pause" /\ outcome \in FailOutcomes /\ batch # <<>>
        /\ pc' \notin {"pause", "finally_r"}) =>
            /\ pc' = "import"
            /\ cur' = Head(batch)

C6_FailureRecorded == []C6_FailureState /\ [][C6_GoesOn]_vars

C6_Witness ==
    /\ pc = "pause"
    /\ outcome = "raised"
    /\ batch # <<>>
    /\ Snapshot.failed_count = 1

\* C7: a dispatch starts only on a job that is planned in the store, a
\* finished job changes state only when an external actor resets it to
\* planned, and within a dispatch the adapter's outcome, once there, is not
\* replaced by that of a second attempt.
C7_DispatchesPlanned ==
    pc \in {"import", "mark"} => RowOf(cur.id).status = "planned"

C7_FinishedStays ==
    \A i \in DOMAIN videos :
        (videos[i].status \in Terminal /\ videos'[i].status # videos[i].status) =>
            /\ resets' = resets + 1
            /\ videos'[i].status = "planned"

C7_OneAttempt ==
    (outcome # "none" /\ outcome' # outcome) => outcome' = "none"

C7_NoRetry ==
    /\ []C7_DispatchesPlanned
    /\ [][C7_FinishedStays /\ C7_OneAttempt]_vars

\* a later run has listed the planned jobs and dispatched none, while a failed
\* and a downloaded job of an earlier run are in the store
C7_Witness ==
    /\ pc = "sleep"
    /\ dispatched = 0
    /\ IdsWithStatus("failed") # {}
    /\ IdsWithStatus("downloaded") # {}

\* C8: whenever daemon_mode is not running (never started, or returned), the
\* snapshot's running field is false.
C8_RunningOnlyInLoop == pc = "stopped" => ~Snapshot.running

\* C9: when the loop was left by an interrupt or an error, the write of the
\* finally clause sets running to false and current_video to None and leaves
\* both counters as they were, and that is the snapshot the daemon exits with.
C9_ExitSnapshot ==
    (pc = "stopped" /\ left_by \in {"interrupt", "error"}) =>
        /\ ~Snapshot.running
        /\ Snapshot.current_video = NoVideo

C9_LastWrite ==
    (pc = "finally_w" /\ pc' = "stopped") =>
        /\ ~statusFile'.data.running
        /\ statusFile'.data.current_video = NoVideo
        /\ Counts(statusFile'.data) = Counts(Snapshot)

C9_FinallyWrites == []C9_ExitSnapshot /\ [][C9_LastWrite]_vars

\* a store error has ended a run that had counted one downloaded job
C9_Witness ==
    /\ pc = "stopped"
    /\ left_by = "error"
    /\ Snapshot.processed_count = 1
    /\ ~Snapshot.running

\* C10: during the pause between two jobs and during the polling sleep the
\* snapshot has no current job.
C10_NoCurrentBetweenJobs ==
    pc \in {"pause", "sleep"} => Snapshot.current_video = NoVideo

\* C11: a transition on an id that is not in the store reports NotFound to
\* its caller, not success.
C11_NotFoundReported ==
    (call.result # "none" /\ ~call.found) => call.result = "NotFound"

\* C12: when listing the planned jobs fails because the store is unavailable,
\* the daemon does not leave its loop with an error: it goes on to the next
\* poll.
C12_OutageStep ==
    (pc = "list" /\ ~storeUp) => ~(pc' = "finally_r" /\ left_by' = "error")

C12_OutageSurvived == [][C12_OutageStep]_vars

\* C13: a failed write of the status file changes nothing about the jobs: a
\* job is written as failed only when the adapter failed, and the daemon's
\* loop is not left with an error.
C13_WriteFailureHarmless ==
    /\ (pc = "get_status" /\ RowOf(cur.id).status = "failed") => outcome \in FailOutcomes
    /\ ~(pc = "finally_r" /\ left_by = "error")

\* C14: the exit status tells the three outcomes of --process-one apart: no
\* two runs that ended as "nothing to do", "processed a job" and "fatal error"
\* have the same exit status.
C14_Outcomes == {"nothing", "processed", "fatal"}

C14_ExitStatusDistinguishes ==
    \A a, b \in exits :
        (a.kind \in C14_Outcomes /\ b.kind \in C14_Outcomes /\ a.kind # b.kind) =>
            a.code # b.code

\* C15: a read of the snapshot gives the default snapshot (not running, both
\* counters 0, no current job, no last_update) when the file is missing or
\* cannot be parsed, and the persisted snapshot otherwise.
C15_Default ==
    [running |-> FALSE, current_video |-> [id |-> 0, title |-> <<>>],
     last_update |-> 0, processed_count |-> 0, failed_count |-> 0]

C15_DefaultRead ==
    (shown.read /\ shown.file \in {"missing", "corrupt"}) => shown.status = C15_Default

C15_ReadStep ==
    (~shown.read /\ shown'.read) =>
        shown'.status = IF statusFile.state = "ok" THEN statusFile.data ELSE C15_Default

C15_ReadNeverFails == []C15_DefaultRead /\ [][C15_ReadStep]_vars

\* the file holds a part of a snapshot that said running, and the read gave
\* the default
C15_Witness ==
    /\ shown.read
    /\ statusFile.state = "corrupt"
    /\ statusFile.data.running
    /\ shown.status = C15_Default

\* C16: a run of the daemon first writes the snapshot with running true and
\* both counters 0, whatever the file held, and only then lists and dispatches:
\* the first listing of a run follows that write, a dispatch follows a listing.
C16_StartSnapshot ==
    pc = "check" =>
        /\ statusFile.state = "ok"
        /\ Snapshot.running
        /\ Snapshot.processed_count = 0
        /\ Snapshot.failed_count = 0

C16_StartStep ==
    /\ (pc = "stopped" /\ pc' # "stopped") => pc' = "start_w"
    /\ (pc = "start_w" /\ pc' # "start_w") => pc' \in {"check", "stopped"}
    /\ (pc # "list" /\ pc' = "list") => pc \in {"check", "sleep"}
    /\ (pc = "check" /\ pc' = "list") => statusFile' = statusFile
    /\ (pc # "import" /\ pc' = "import") => pc \in {"list", "pause"}

C16_StartResets == []C16_StartSnapshot /\ [][C16_StartStep]_vars

\* an earlier run has finished both jobs and counted them, and a new run has
\* made its first write
C16_Witness ==
    /\ pc = "check"
    /\ IdsWithStatus("downloaded") # {}
    /\ IdsWithStatus("failed") # {}
    /\ Snapshot.running
    /\ CountSum(Snapshot) = 0

\* C17: the jobs of a pass are those its one listing gave: during a dispatch
\* the job and the waiting rest stay as they are, the step after the pause
\* takes the first waiting job or, with none waiting, ends the pass, whatever
\* has become planned in the store since; and the listing of the next pass
\* gives every job planned by then.
C17_PassFixed ==
    /\ (pc \in InDispatch /\ pc # "pause") => (cur' = cur /\ batch' = batch)
    /\ (pc = "pause" /\ pc' = "import") =>
            /\ batch # <<>>
            /\ cur' = Head(batch)
            /\ batch' = Tail(batch)
    /\ (pc = "pause" /\ pc' = "sleep") => batch = <<>>
    /\ (pc = "pause" /\ pc' \notin {"pause", "finally_r"}) => pc' \in {"import", "sleep"}
    /\ (pc # "import" /\ pc' = "import") => pc \in {"list", "pause"}

C17_NextPassLists ==
    (pc = "list" /\ pc' = "import") =>
        IdsWithStatus("planned") \subseteq {cur'.id} \cup { batch'[k].id : k \in DOMAIN batch' }

C17_LateJobWaits == [][C17_PassFixed /\ C17_NextPassLists]_vars

\* job 1 was dispatched first in this run and set back to planned afterwards;
\* the daemon has gone on to job 2
C17_Witness ==
    /\ pc = "import"
    /\ cur.id = 2
    /\ dispatched = 1
    /\ resets = 1
    /\ 1 \in IdsWithStatus("planned")
    /\ \A k \in DOMAIN batch : batch[k].id # 1

\* C18: without external resets, every job in the store has a non-empty
\* file_path exactly when its status is downloaded, and a step that makes a
\* job processing or failed leaves its file_path empty.
C18_PathIffDownloaded ==
    \A i \in DOMAIN videos :
        (videos[i].file_path # EmptyPath) <=> (videos[i].status = "downloaded")

C18_NoPathLeft ==
    \A i \in DOMAIN videos :
        (videos'[i] # videos[i] /\ videos'[i].status \in {"processing", "failed"}) =>
            videos'[i].file_path = EmptyPath

C18_PathOnlyDownloaded == []C18_PathIffDownloaded /\ [][C18_NoPathLeft]_vars

\* the daemon has moved a job to processing, and a job downloaded before is in
\* the store with its path
C18_Witness ==
    /\ pc = "adapter"
    /\ RowOf(cur.id).status = "processing"
    /\ RowOf(cur.id).file_path = EmptyPath
    /\ \E i \in DOMAIN videos :
        /\ videos[i].status = "downloaded"
        /\ videos[i].file_path = OutputPath(videos[i].id, videos[i].title)

\* C19: every change of the store is one step that changes one job, its
\* status together with its file_path: the job has its path from the very step
\* that makes it downloaded, so that a reader, which may read between any two
\* steps of the daemon, lists the planned jobs of one such state and never
\* sees a half-made transition.
C19_OneWrite ==
    \A i \in DOMAIN videos :
        videos'[i] # videos[i] =>
            /\ (videos'[i].status = "downloaded") =
                   (videos'[i].file_path = OutputPath(videos[i].id, videos[i].title))
            /\ (videos'[i].status # "downloaded") = (videos'[i].file_path = EmptyPath)
            /\ \A j \in DOMAIN videos : j # i => videos'[j] = videos[j]

C19_ReadsOneState ==
    (~shown.read /\ shown'.read) =>
        /\ videos' = videos
        /\ shown'.pending = [k \in DOMAIN Take(get_planned_videos, PendingShown) |->
                                get_planned_videos[k].id]

C19_AtomicTransition == [][C19_OneWrite /\ C19_ReadsOneState]_vars

\* a --status run has read right after the daemon's write of downloaded:
\* the job has its path and is no longer among the pending jobs
C19_Witness ==
    /\ shown.read
    /\ pc = "get_status"
    /\ outcome = "file"
    /\ RowOf(cur.id).status = "downloaded"
    /\ RowOf(cur.id).file_path = output_path
    /\ \A k \in DOMAIN shown.pending : shown.pending[k] # cur.id

\* C20: a step of the daemon, of --process-one or of --status leaves the
\* number of jobs and every job's id, title and script as they are, and
\* changes at most one job: the one whose id the stepping process holds.
C20_CoreStep == ~UNCHANGED <<Daemon_vars, One_vars, shown>>

C20_FrameStep ==
    C20_CoreStep =>
        /\ Len(videos') = Len(videos)
        /\ \A i \in DOMAIN videos :
            /\ videos'[i].id = videos[i].id
            /\ videos'[i].title = videos[i].title
            /\ videos'[i].script = videos[i].script
            /\ videos'[i] # videos[i] =>
                /\ videos[i].id = IF ppc' # ppc THEN pcur.id ELSE cur.id
                /\ \A j \in DOMAIN videos : j # i => videos'[j] = videos[j]
        /\ shown' # shown => videos' = videos

C20_Frame == [][C20_FrameStep]_vars

\* --process-one has moved its job to processing, while the job the daemon
\* downloaded before is as the daemon left it
C20_Witness ==
    /\ ppc = "current_r"
    /\ Len(videos) = 2
    /\ RowOf(pcur.id).status = "processing"
    /\ \E i \in DOMAIN videos :
        /\ videos[i].id # pcur.id
        /\ videos[i].status = "downloaded"
        /\ videos[i].title = TitleOf(videos[i].id)
        /\ videos[i].file_path = OutputPath(videos[i].id, videos[i].title)
    /\ dispatched = 1

\* C21: a --process-one run with a planned job takes the planned job with the
\* lowest id, holds that one job until it ends, changes no other job, and ends
\* with its job downloaded or failed; a run with no planned job changes no job
\* and ends as "nothing to do".
C21_OnePcs == {"import", "mark", "current_r", "current_w", "adapter",
               "write_downloaded", "write_failed", "except"}

C21_Takes ==
    (ppc = "idle" /\ ~UNCHANGED One_vars) =>
        /\ videos' = videos
        /\ IF IdsWithStatus("planned") = {}
           THEN /\ ppc' = "idle"
                /\ exits' = exits \cup {[kind |-> "nothing", code |-> 0]}
           ELSE /\ ppc' = "import"
                /\ pcur'.id \in IdsWithStatus("planned")
                /\ \A id \in IdsWithStatus("planned") : pcur'.id <= id
                /\ exits' = exits

C21_Holds ==
    ppc \in C21_OnePcs =>
        /\ ppc' # "idle" => pcur' = pcur
        /\ \A i \in DOMAIN videos :
            videos[i].id # pcur.id => videos'[i].status = videos[i].status
        /\ (ppc' = "idle") =>
            LET end == videos'[CHOOSE i \in DOMAIN videos : videos[i].id = pcur.id].status
            IN  /\ end \in Terminal
                /\ \E x \in exits' :
                       x.kind = IF end = "downloaded" THEN "processed" ELSE "failed"

C21_ProcessOne == [][C21_Takes /\ C21_Holds]_vars

\* job 2 was created before job 1, both are planned, and the run has taken job 1
C21_Witness ==
    /\ ppc = "import"
    /\ pcur.id = 1
    /\ Len(videos) = 2
    /\ videos[1].id = 2
    /\ videos[1].status = "planned"
    /\ videos[2].status = "planned"

\* C22: a --status run writes nothing: the step in which it reads, and the
\* step in which it ends, leave every job and the status file as they are,
\* whatever the daemon is doing; and the pending jobs it shows are planned
\* jobs in ascending order of id, all of them when there are at most five and
\* otherwise the five with the lowest ids.
C22_ReadOnly ==
    shown' # shown => (videos' = videos /\ statusFile' = statusFile)

C22_FirstFive ==
    (~shown.read /\ shown'.read) =>
        LET planned == IdsWithStatus("planned")
            got == shown'.pending
            ids == { got[k] : k \in DOMAIN got }
        IN  /\ Len(got) = IF Cardinality(planned) < 5 THEN Cardinality(planned) ELSE 5
            /\ \A k, l \in DOMAIN got : k < l => got[k] < got[l]
            /\ ids \subseteq planned
            /\ \A a \in ids, b \in planned \ ids : a < b

C22_StatusReadOnly == [][C22_ReadOnly /\ C22_FirstFive]_vars

\* six jobs, created from id 6 down to id 1, are planned and the run shows
\* the jobs 1 to 5
C22_Witness ==
    /\ shown.read
    /\ Cardinality(IdsWithStatus("planned")) = 6
    /\ videos[1].id = 6
    /\ shown.pending = <<1, 2, 3, 4, 5>>

\* C23: within a run no write of the snapshot lowers processed_count or
\* failed_count, and the write that ends a dispatch leaves the counters as
\* they were when the dispatch began, but for one more in processed_count
\* when the job is downloaded, or one more in failed_count when it is failed.
C23_NoDecrease ==
    (pc \notin {"stopped", "start_w"} /\ statusFile.state = "ok" /\ statusFile'.state = "ok") =>
        /\ statusFile'.data.processed_count >= statusFile.data.processed_count
        /\ statusFile'.data.failed_count >= statusFile.data.failed_count

C23_DispatchCounts ==
    (pc = "inc_w" /\ pc' = "pause") =>
        Counts(statusFile'.data) =
            IF RowOf(cur.id).status = "downloaded"
            THEN [pre EXCEPT !.processed_count = @ + 1]
            ELSE [pre EXCEPT !.failed_count = @ + 1]

C23_CountersGrow == [][C23_NoDecrease /\ C23_DispatchCounts]_vars

\* C24: a write of the snapshot gives the fields named in its update their
\* new values, stamps last_update with the time read by the same call, and
\* leaves every other field as the read of the snapshot gave it; nothing but
\* these writes changes the file, and a written file always has a last_update.
C24_WritePcs == {"start_w", "current_w", "inc_w", "finally_w"}

C24_Named ==
    CASE pc = "start_w" -> {"running", "processed_count", "failed_count"}
      [] pc = "current_w" -> {"current_video"}
      [] pc = "inc_w" -> {IF success THEN "processed_count" ELSE "failed_count"}
      [] pc = "finally_w" -> {"running", "current_video"}
      [] OTHER -> {}

C24_WriteStep ==
    (pc \in C24_WritePcs /\ pc' \notin {pc, "finally_r"}) =>
        /\ statusFile'.state = "ok"
        /\ DOMAIN statusFile'.data = DOMAIN DefaultStatus
        /\ \A k \in DOMAIN DefaultStatus \ (C24_Named \cup {"last_update"}) :
               statusFile'.data[k] = Snapshot[k]
        /\ statusFile'.data.last_update \in 1..now

C24_OnlyWrites == statusFile' # statusFile => pc \in C24_WritePcs

C24_Stamped == statusFile.state = "ok" => statusFile.data.last_update # NoTime

C24_WriteMerges == []C24_Stamped /\ [][C24_WriteStep /\ C24_OnlyWrites]_vars

\* the write of current_video after the clock has moved: the file still says
\* running, as the start wrote it, and has the stamp of the later time
C24_Witness ==
    /\ pc = "adapter"
    /\ Snapshot.running
    /\ Snapshot.current_video.id = cur.id
    /\ Snapshot.last_update = 2

\* C25: while the adapter works on a job for the daemon, the job is processing
\* in the store and the snapshot's current_video is the job's id and title;
\* the adapter is entered only from the write of current_video, and that write
\* only after the write of processing.
C25_DuringAdapter ==
    pc = "adapter" =>
        /\ RowOf(cur.id).status = "processing"
        /\ Snapshot.current_video = [id |-> cur.id, title |-> RowOf(cur.id).title]

C25_Order ==
    /\ (pc # "adapter" /\ pc' = "adapter") =>
            /\ pc = "current_w"
            /\ statusFile'.data.current_video.id = cur.id
    /\ (pc # "current_w" /\ pc' = "current_w") => pc = "current_r"
    /\ (pc # "current_r" /\ pc' = "current_r") =>
            /\ pc = "mark"
            /\ videos'[CHOOSE i \in DOMAIN videos : videos[i].id = cur.id].status = "processing"
            /\ statusFile' = statusFile

C25_MarkedBeforeAdapter == []C25_DuringAdapter /\ [][C25_Order]_vars

\* the adapter works on job 2, the second job of the pass
C25_Witness ==
    /\ pc = "adapter"
    /\ cur.id = 2
    /\ dispatched = 1
    /\ RowOf(2).status = "processing"
    /\ Snapshot.current_video = [id |-> 2, title |-> LongTitle]

\* C26: in a run the snapshot never counts more than the store holds: no more
\* processed than downloaded jobs, no more failed than failed jobs, and no
\* more in sum than the dispatches the run has completed; the write of a
\* terminal state leaves the counters alone, and the counter that the write
\* after it raises is that of the state the job already has in the store.
C26_Running == pc \notin {"stopped", "start_w"}

C26_CountedAreWritten ==
    C26_Running =>
        /\ Snapshot.processed_count <= Cardinality(IdsWithStatus("downloaded"))
        /\ Snapshot.failed_count <= Cardinality(IdsWithStatus("failed"))
        /\ CountSum(Snapshot) <= dispatched

C26_WriteThenCount ==
    /\ \A i \in DOMAIN videos :
        (videos'[i].status # videos[i].status /\ videos'[i].status \in Terminal) =>
            /\ statusFile' = statusFile
            /\ pc' = "get_status"
    /\ (C26_Running /\ Counts(statusFile'.data) # Counts(statusFile.data)) =>
            /\ pc = "inc_w"
            /\ RowOf(cur.id).status =
                   IF statusFile'.data.processed_count > statusFile.data.processed_count
                   THEN "downloaded" ELSE "failed"

C26_WrittenBeforeCounted == []C26_CountedAreWritten /\ [][C26_WriteThenCount]_vars

\* the first job of the run is written as downloaded and not yet counted
C26_Witness ==
    /\ pc = "inc_r"
    /\ success
    /\ RowOf(cur.id).status = "downloaded"
    /\ Snapshot.processed_count = 0
    /\ dispatched = 1

\* C27: a job becomes downloaded only in the step after a workflow that ran
\* to its end and left its file, with the path of that file; and after a
\* workflow that ran to its end without leaving the file the job is failed
\* with an empty file_path, the dispatch returns False and is counted in
\* failed_count.
C27_OnlyWithFile ==
    \A i \in DOMAIN videos :
        (videos'[i].status # videos[i].status /\ videos'[i].status = "downloaded") =>
            /\ pc = "write_downloaded"
            /\ outcome = "file"
            /\ videos[i].id = cur.id
            /\ videos'[i].file_path = OutputPath(cur.id, cur.title)

C27_NoFileFails ==
    (pc \in {"get_status", "inc_r", "inc_w", "pause"} /\ outcome = "no_file") =>
        /\ RowOf(cur.id).status = "failed"
        /\ RowOf(cur.id).file_path = EmptyPath
        /\ ~success
        /\ pc = "pause" =>
            /\ Snapshot.failed_count = pre.failed_count + 1
            /\ Snapshot.processed_count = pre.processed_count

C27_FileDecides == []C27_NoFileFails /\ [][C27_OnlyWithFile]_vars

\* the workflow of job 2 ended without its file, after job 1 was downloaded
C27_Witness ==
    /\ pc = "pause"
    /\ outcome = "no_file"
    /\ cur.id = 2
    /\ RowIds = {1, 2}
    /\ output_path = OutputPath(2, LongTitle)
    /\ RowOf(2).status = "failed"
    /\ RowOf(1).status = "downloaded"
    /\ Snapshot.failed_count = 1

\* C28: once an interrupt has reached a run, the run is in its finally clause
\* or has ended; the jobs it had listed and not dispatched are planned, no
\* step of it changes the state of a job, and it ends.
C28_Interrupted == left_by = "interrupt"

C28_LeavesLoop ==
    C28_Interrupted =>
        /\ pc \in {"finally_r", "finally_w", "stopped"}
        /\ \A k \in DOMAIN batch : RowOf(batch[k].id).status = "planned"

C28_NoMoreDispatch ==
    (C28_Interrupted /\ left_by' = "interrupt") =>
        /\ \A i \in DOMAIN videos : videos'[i].status = videos[i].status
        /\ pc' \in {pc, IF pc = "finally_r" THEN "finally_w" ELSE "stopped"}

C28_Ends == C28_Interrupted ~> (pc = "stopped" /\ left_by = "interrupt")

C28_InterruptStops == []C28_LeavesLoop /\ [][C28_NoMoreDispatch]_vars /\ C28_Ends

\* the run was interrupted while job 1 was with the adapter: it has ended,
\* job 1 is still processing and job 2, listed in the same pass, is planned
C28_Witness ==
    /\ pc = "stopped"
    /\ left_by = "interrupt"
    /\ dispatched = 0
    /\ RowIds = {1, 2}
    /\ RowOf(1).status = "processing"
    /\ RowOf(2).status = "planned"
    /\ ~Snapshot.running

\* C29: with no interrupt and the store available, the daemon does not leave
\* its loop: from a position inside the try block of daemon_mode its next
\* position is inside the try block too (so that every planned job is listed
\* by a later pass and dispatched).
C29_StaysInLoop == pc \in TryPcs => pc' \in TryPcs

C29_LoopGoesOn == [][C29_StaysInLoop]_vars

\* C30: a pass whose listing finds no planned job goes to the polling sleep
\* and from there to the next listing; neither step writes a job or the
\* status file, whatever the clock says, and the snapshot says running
\* during the sleep.
C30_EmptyPass ==
    (pc = "list" /\ IdsWithStatus("planned") = {} /\ pc' \notin {"list", "finally_r"}) =>
        /\ pc' = "sleep"
        /\ videos' = videos
        /\ statusFile' = statusFile

C30_PollsAgain ==
    (pc = "sleep" /\ pc' \notin {"sleep", "finally_r"}) =>
        /\ pc' = "list"
        /\ videos' = videos
        /\ statusFile' = statusFile

C30_StillRunning == pc = "sleep" => Snapshot.running

C30_IdlePassWritesNothing ==
    []C30_StillRunning /\ [][C30_EmptyPass /\ C30_PollsAgain]_vars

\* a run that found nothing to dispatch sleeps, later than its last write,
\* with the jobs of an earlier run in the store
C30_Witness ==
    /\ pc = "sleep"
    /\ dispatched = 0
    /\ videos # <<>>
    /\ IdsWithStatus("planned") = {}
    /\ Snapshot.running
    /\ Snapshot.last_update < now

\* C31: no job is left in processing by a run that has ended, nor by a later
\* run that has gone through a whole pass: when the daemon is stopped, and
\* when it sleeps between two passes, no job in the store is processing.
C31_NoneLeftProcessing ==
    pc \in {"stopped", "sleep"} => IdsWithStatus("processing") = {}

\* C32: with a daemon and a --process-one run on the same store, the two
\* never hold the same job at the same time, and no step moves a job that is
\* downloaded or failed to processing.
C32_NotBoth ==
    (pc \in LaunchPcs /\ ppc \in LaunchPcs) => cur.id # pcur.id

C32_NotAgain ==
    \A i \in DOMAIN videos :
        videos[i].status \in Terminal => videos'[i].status # "processing"

C32_DispatchedOnce == []C32_NotBoth /\ [][C32_NotAgain]_vars

\* C33: with --process-one runs beside the daemon, the snapshot's counters
\* still add up to the dispatches the daemon's run has completed, whenever the
\* daemon is not between the end of a dispatch and the write of its counter.
C33_Settled == {"list", "sleep", "pause", "import", "mark", "current_r", "current_w", "adapter"}

C33_NoLostIncrement ==
    pc \in C33_Settled => CountSum(Snapshot) = dispatched

\* C34: no step of a --process-one run changes running, processed_count or
\* failed_count of the snapshot, and when no --process-one run is under way
\* the snapshot has no current job.
C34_OneStep == ppc' # ppc \/ exits' # exits

C34_KeepsCounters ==
    C34_OneStep =>
        /\ Snapshot'.running = Snapshot.running
        /\ Counts(Snapshot') = Counts(Snapshot)

C34_NoCurrentLeft == ppc = "idle" => Snapshot.current_video = NoVideo

C34_OneLeavesSnapshot == []C34_NoCurrentLeft /\ [][C34_KeepsCounters]_vars

\* C35: process_video of the batch runner and launch_vrew_automation of the
\* daemon write the same sequence of Job Store transitions for the same job
\* and the same outcome of the adapter: processing first, then downloaded
\* with the path of the file when the file exists, and failed without a
\* path when the workflow ended without a file or an error was raised; and
\* at the summary of the batch runner success_count + fail_count is the
\* number of jobs that were planned when the batch was listed.
C35_Sequence(o, id, title) ==
    IF o = "file"
    THEN <<[status |-> "processing", file_path |-> EmptyPath],
           [status |-> "downloaded", file_path |-> OutputPath(id, title)]>>
    ELSE <<[status |-> "processing", file_path |-> EmptyPath],
           [status |-> "failed", file_path |-> EmptyPath]>>

\* the dispatch routine that takes the step, with its job and its outcome
C35_Actor ==
    IF desk' # desk
    THEN [routine |-> "process_video", id |-> desk.cur.id, outcome |-> desk.outcome]
    ELSE [routine |-> "launch_vrew_automation", id |-> cur.id, outcome |-> outcome]

\* a write of a routine is the next one of the sequence of its outcome: the
\* first on a planned job, the second on the job the first has left
C35_NextOfSequence(old, new, o) ==
    LET seq == C35_Sequence(o, old.id, old.title)
        written == [status |-> new.status, file_path |-> new.file_path]
    IN  \/ old.status = "planned" /\ written = seq[1]
        \/ /\ old.status = seq[1].status
           /\ old.file_path = seq[1].file_path
           /\ o # "none"
           /\ written = seq[2]

C35_SameWrites ==
    \A i \in DOMAIN videos :
        (i \in DOMAIN videos' /\ videos'[i] # videos[i]) =>
            /\ videos[i].id = C35_Actor.id
            /\ C35_NextOfSequence(videos[i], videos'[i], C35_Actor.outcome)

C35_AllCounted ==
    desk.pc = "summary" => desk.success_count + desk.fail_count = desk.listed

C35_SameDispatch == []C35_AllCounted /\ [][C35_SameWrites]_vars

\* the same with the adapter's modules imported: what is left of the
\* equivalence when launch_vrew_automation gets as far as process_video does
C35_Imported == outcome # "import_error" => C35_SameWrites

C35_SameDispatchImported == []C35_AllCounted /\ [][C35_Imported]_vars

\* the batch runner has processed a batch of two jobs, one to downloaded and
\* one to failed, and stands at its summary
C35_Witness ==
    /\ desk.pc = "summary"
    /\ desk.listed = 2
    /\ desk.success_count = 1
    /\ desk.fail_count = 1
    /\ IdsWithStatus("downloaded") # {}
    /\ IdsWithStatus("failed") # {}
====
